---------------------------- MODULE Spec2Model ----------------------------
(***************************************************************************)
(* Verification model of the ethash artifact LRU (BasicLRU, its recency    *)
(* list, the locking wrapper Cache and the epoch store lru[T]) of          *)
(* plugeth-network-plugins.                                                *)
(*                                                                         *)
(* The container is modelled at pointer level: list elements are heap      *)
(* cells (identifiers 1..NumElems, cell 0 is the list's root sentinel)     *)
(* with next/prev/v fields, and the map `items` takes a key to the cell    *)
(* and the value stored for it, as in the source.                          *)
(***************************************************************************)
EXTENDS Integers, Sequences, FiniteSets, TLC

\* ------------------------------------------------------------------ bounds
MaxKey == 2          \* keys (and epochs) range over 0..MaxKey
NumValues == 2       \* values stored by the plain container: 1..NumValues
MaxCap == 2          \* largest capArg argument given to NewBasicLRU

NumCallers == 2      \* goroutines calling the locking wrapper Cache
CacheMaxKey == 1     \* they use the keys 0..CacheMaxKey
CacheMaxCap == 1     \* and a wrapper built with capArg 0..CacheMaxCap

NumAcquirers == 2    \* goroutines calling the epoch store
MaxEpoch == 1        \* they request the epochs 0..MaxEpoch
StoreMaxCap == 2     \* of a store built with capacity 1..StoreMaxCap
MaxArtifacts == 5    \* artifacts (caches or datasets) alive at once

MaxNumber == 3       \* block numbers of headers: 0..MaxNumber
MaxTransition == 1   \* configured transition heights: 1..MaxTransition, or none
MaxActivation == 1   \* reward schedule activation heights: 0..MaxActivation
MaxEraLen == 2       \* era lengths: 1..MaxEraLen
MaxUncles == 2       \* uncles of a block
MaxDepth == 2        \* an uncle is 1..MaxDepth blocks older than its header

Keys == 0..MaxKey
Values == 1..NumValues
CapArgs == (-1)..MaxCap
Callers == 1..NumCallers
CacheKeys == 0..CacheMaxKey
Acquirers == 1..NumAcquirers
Epochs == 0..MaxEpoch
Artifacts == 1..MaxArtifacts

\* ------------------------------------------------------------------- state
\* A BasicLRU called by one goroutine.
VARIABLES
    lru,        \* the BasicLRU under test
    capArg,   \* the argument NewBasicLRU was called with
    call,       \* the last call made on lru, with what it returned
    touch       \* history: the keys present, in the order of their last
                \* Add / Get hit, the latest first

lruVars == <<lru, capArg, call, touch>>

\* A Cache called by several goroutines.
VARIABLES
    cache,      \* Cache.cache, the BasicLRU inside the wrapper
    mu,         \* Cache.mu: 0 when unlocked, else the caller holding it
    cpc,        \* per caller: "idle", "waiting" (at c.mu.Lock()), "locked"
                \* (in the method, nothing done yet), "looked" (first
                \* statement done), "panic"
    cop,        \* per caller: the method it is in, with its arguments
    cloc,       \* per caller: item, ok of the method's map lookup
    ref,        \* history: a BasicLRU the completed calls were applied to one
                \* after the other, in the order they completed
    agree       \* history: every completed call returned what its
                \* application to ref returned

cacheVars == <<cache, mu, cpc, cop, cloc, ref, agree>>

\* An epoch store lru[T] called by several goroutines.
VARIABLES
    store,      \* the lru[T]: cache (a BasicLRU from epoch to artifact),
                \* future and futureItem
    arts,       \* the heap of artifacts: per artifact its epoch, its
                \* generation gate, its content and, as history, how often its
                \* generation routine ran and how often it was released
    bg,         \* per artifact: the detached generation task started for it
    apc,        \* per caller: "idle", "gate" (bookkeeping done, at the
                \* generation gate), "blocked" (waiting at the gate),
                \* "generating", "using" (returned, reading the content)
    acur,       \* per caller: the artifact it was given
    aseen,      \* per caller: the content Acquire returned
    awaited,    \* history, per caller: it had to wait at the gate
    solo,       \* history: the epoch, absent from the entries when first
                \* asked for, that every Acquire since asked for (-1: none)
    soloers,    \* history: the callers of those Acquires still in their call
    maxReq,     \* history: the highest epoch ever asked for (-1: none)
    lastAcq     \* history: what the last bookkeeping step did

storeVars == <<store, arts, bg, apc, acur, aseen, awaited, solo,
               soloers, maxReq, lastAcq>>

\* The reward engine and the big.Int objects it works on.
VARIABLES
    rin,        \* the arguments the engine is called with
    mem,        \* the heap cells that outlive a call: the package-level
                \* big.Int variables, the Number of the header and of the
                \* uncles, the rewards of the schedule; per cell its value
    rcall       \* the last call: function, arguments, results

rewardVars == <<rin, mem, rcall>>

otherThanLRU == <<cacheVars, storeVars, rewardVars>>

otherThanCache == <<lruVars, storeVars, rewardVars>>

otherThanStore == <<lruVars, cacheVars, rewardVars>>

otherThanReward == <<lruVars, cacheVars, storeVars>>

\* Go's zero values of K (an integer key) and V, and the nil pointer.
ZeroKey == 0
ZeroValue == 0
Nil == -1
Root == 0
Max(a, b) == IF a >= b THEN a ELSE b
NumElems == Max(MaxKey, Max(CacheMaxKey, MaxEpoch)) + 1
Elems == 1..NumElems

\* ------------------------------------------------------------ recency list
\* The heap of list cells with none linked: new(list[T]) before init().
ZeroList ==
    [next |-> [n \in 0..NumElems |-> Nil],
     prev |-> [n \in 0..NumElems |-> Nil],
     v    |-> [n \in 0..NumElems |-> ZeroKey]]

init(l) == [l EXCEPT !.next[Root] = Root, !.prev[Root] = Root]

newList == init(ZeroList)

pushElem(l, e) ==
    LET l1 == [l  EXCEPT !.prev[e] = Root]
        l2 == [l1 EXCEPT !.next[e] = l1.next[Root]]
        l3 == [l2 EXCEPT !.next[Root] = e]
    IN  [l3 EXCEPT !.prev[l3.next[e]] = e]

\* e.prev.next = e.next; e.next.prev = e.prev
unlink(l, e) ==
    LET l1 == [l EXCEPT !.next[l.prev[e]] = l.next[e]]
    IN  [l1 EXCEPT !.prev[l1.next[e]] = l1.prev[e]]

moveToFront(l, e) == pushElem(unlink(l, e), e)

remove(l, e) ==
    LET l1 == unlink(l, e)
    IN  [l1 EXCEPT !.next[e] = Nil, !.prev[e] = Nil]

last(l) == IF l.prev[Root] = Root THEN Nil ELSE l.prev[Root]

\* A faulty removeLast, for comparison: the front cell removed.
removeFirst(l) ==
    LET e == IF l.next[Root] = Root THEN Nil ELSE l.next[Root]
    IN  [l |-> IF e # Nil THEN remove(l, e) ELSE l, e |-> e]

removeLast(l) ==
    LET e == last(l)
    IN  [l |-> IF e # Nil THEN remove(l, e) ELSE l, e |-> e]

\* for e := l.root.prev; e != &l.root; e = e.prev { slice = append(slice, e.v) }
RECURSIVE appendFrom(_, _, _)
appendFrom(l, e, slice) ==
    IF e = Root THEN slice ELSE appendFrom(l, l.prev[e], Append(slice, l.v[e]))

\* A faulty appendTo, for comparison: the walk starts at the front cell.
appendFromFront(l, slice) ==
    LET walk[i \in 0..NumElems] ==
            IF i = 0 THEN <<Root, slice>>
            ELSE LET e == l.next[walk[i - 1][1]]
                 IN  IF walk[i - 1][1] = Nil \/ e = Root \/ e = Nil
                     THEN <<Nil, walk[i - 1][2]>>
                     ELSE <<e, Append(walk[i - 1][2], l.v[e])>>
    IN  walk[NumElems][2]

\* appendTo: the loop "for e := l.root.prev; e != &l.root; e = e.prev".
appendTo(l, slice) == appendFrom(l, l.prev[Root], slice)

\* A dereference of e.prev / e.next of a cell that is not linked is a nil
\* pointer dereference: the Go runtime panics.
nilDeref(l, e) == e = Nil \/ l.prev[e] = Nil \/ l.next[e] = Nil

\* ---------------------------------------------------------------- BasicLRU
ZeroItem == [elem |-> Nil, value |-> ZeroValue]

Delete(items, key) == [k \in DOMAIN items \ {key} |-> items[k]]

Put(items, key, item) ==
    [k \in DOMAIN items \cup {key} |-> IF k = key THEN item ELSE items[k]]

\* item, ok := c.items[key]
Lookup(c, key) ==
    IF key \in DOMAIN c.items
    THEN [item |-> c.items[key], ok |-> TRUE]
    ELSE [item |-> ZeroItem, ok |-> FALSE]

\* The cells some item refers to; every other cell is unreachable garbage.
Referenced(items) == {items[k].elem : k \in DOMAIN items}

\* new(listElem[K]): a zeroed cell the program holds no reference to.
newElem(c) == CHOOSE e \in Elems \ Referenced(c.items) :
                  \A f \in Elems \ Referenced(c.items) : e <= f

\* A cell the container dropped its last reference to is collected: a later
\* new(listElem[K]) may return its memory, zeroed.
collect(l, items) ==
    [next |-> [n \in 0..NumElems |->
                 IF n \in Elems \ Referenced(items) THEN Nil ELSE l.next[n]],
     prev |-> [n \in 0..NumElems |->
                 IF n \in Elems \ Referenced(items) THEN Nil ELSE l.prev[n]],
     v    |-> [n \in 0..NumElems |->
                 IF n \in Elems \ Referenced(items) THEN ZeroKey ELSE l.v[n]]]

\* A faulty normalisation, for comparison: only negative capacities coerced.
NormalizeNegative(capacity) == IF capacity < 0 THEN 1 ELSE capacity

\* NewBasicLRU: "if capacity <= 0 { capacity = 1 }".
NormalizeCap(capacity) == IF capacity <= 0 THEN 1 ELSE capacity

NewBasicLRU(capacity) ==
    [items |-> [k \in {} |-> ZeroItem],
     list  |-> newList,
     cap   |-> NormalizeCap(capacity)]

LRULen(c) == Cardinality(DOMAIN c.items)

\* A faulty update, for comparison: the value replaced, the cell not moved.
AddUpdateNoMove(c, key, value, item) ==
    [c |-> [c EXCEPT !.items = Put(c.items, key, [item EXCEPT !.value = value])],
     evicted |-> FALSE]

\* Add, the key found in the map: lines "if ok { ... return false }".
AddUpdate(c, key, value, item) ==
    [c |-> [c EXCEPT !.items = Put(c.items, key, [item EXCEPT !.value = value]),
                     !.list = moveToFront(c.list, item.elem)],
     evicted |-> FALSE]

\* A faulty insert, for comparison: nothing stored.
AddInsertNoStore(c, key, value) == [c |-> c, evicted |-> FALSE]

\* A faulty insert, for comparison: a cell allocated even when full.
AddInsertNoEvict(c, key, value) ==
    LET elem == newElem(c)
        l1   == [c.list EXCEPT !.v[elem] = key]
    IN  [c |-> [c EXCEPT
                  !.items = Put(c.items, key, [elem |-> elem, value |-> value]),
                  !.list  = pushElem(l1, elem)],
         evicted |-> FALSE]

\* Add, the key not found: evict the last cell and reuse it when the
\* container is full, allocate a cell otherwise; store the item.
AddInsert(c, key, value) ==
    IF LRULen(c) >= c.cap
    THEN LET rl     == removeLast(c.list)
             elem   == rl.e
             items1 == Delete(c.items, rl.l.v[elem])
             l1     == [rl.l EXCEPT !.v[elem] = key]
         IN  [c |-> [c EXCEPT
                       !.items = Put(items1, key, [elem |-> elem, value |-> value]),
                       !.list  = pushElem(l1, elem)],
              evicted |-> TRUE]
    ELSE LET elem == newElem(c)
             l1   == [c.list EXCEPT !.v[elem] = key]
         IN  [c |-> [c EXCEPT
                       !.items = Put(c.items, key, [elem |-> elem, value |-> value]),
                       !.list  = pushElem(l1, elem)],
              evicted |-> FALSE]

\* Add after its map lookup returned (item, ok).
AddStore(c, key, value, item, ok) ==
    IF ok THEN AddUpdate(c, key, value, item) ELSE AddInsert(c, key, value)

Add(c, key, value) ==
    LET lk == Lookup(c, key) IN AddStore(c, key, value, lk.item, lk.ok)

Contains(c, key) == key \in DOMAIN c.items

\* A faulty Get, for comparison: every lookup taken as a miss.
GetNeverFinds(c, item, ok) == [c |-> c, value |-> ZeroValue, ok |-> FALSE]

\* Get after its map lookup returned (item, ok).
GetTouch(c, item, ok) ==
    IF ~ok
    THEN [c |-> c, value |-> ZeroValue, ok |-> FALSE]
    ELSE [c |-> [c EXCEPT !.list = moveToFront(c.list, item.elem)],
          value |-> item.value, ok |-> TRUE]

Get(c, key) ==
    LET lk == Lookup(c, key) IN GetTouch(c, lk.item, lk.ok)

GetOldest(c) ==
    LET lastElem == last(c.list) IN
    IF lastElem = Nil
    THEN [key |-> ZeroKey, value |-> ZeroValue, ok |-> FALSE]
    ELSE [key |-> c.list.v[lastElem],
          value |-> Lookup(c, c.list.v[lastElem]).item.value,
          ok |-> TRUE]

\* A faulty Peek, for comparison: the cell moved to the front as Get does.
PeekTouch(c, key) ==
    LET g == Get(c, key) IN [c |-> g.c, value |-> g.value, ok |-> g.ok]

Peek(c, key) ==
    LET lk == Lookup(c, key) IN [c |-> c, value |-> lk.item.value, ok |-> lk.ok]

Purge(c) ==
    LET items1 == [k \in {} |-> ZeroItem]
    IN  [c EXCEPT !.items = items1, !.list = collect(init(c.list), items1)]

\* Remove after its map lookup returned (item, ok).
RemoveItem(c, key, item, ok) ==
    IF ok
    THEN LET items1 == Delete(c.items, key)
         IN  [c |-> [c EXCEPT !.items = items1,
                              !.list = collect(remove(c.list, item.elem), items1)],
              ok |-> TRUE]
    ELSE [c |-> c, ok |-> FALSE]

Remove(c, key) ==
    LET lk == Lookup(c, key) IN RemoveItem(c, key, lk.item, lk.ok)

RemoveOldest(c) ==
    LET lastElem == last(c.list) IN
    IF lastElem = Nil
    THEN [c |-> c, key |-> ZeroKey, value |-> ZeroValue, ok |-> FALSE]
    ELSE LET key    == c.list.v[lastElem]
             item   == Lookup(c, key).item
             items1 == Delete(c.items, key)
         IN  [c |-> [c EXCEPT !.items = items1,
                              !.list = collect(remove(c.list, lastElem), items1)],
              key |-> key, value |-> item.value, ok |-> TRUE]

KeysOf(c) == appendTo(c.list, <<>>)

\* ------------------------------------------------- sequential BasicLRU use
\* had and plen record what held when the call started: whether its key was
\* present, and Len().
NoCall == [op |-> "New", key |-> ZeroKey, value |-> ZeroValue, ok |-> FALSE,
           rkey |-> ZeroKey, rvalue |-> ZeroValue, rkeys |-> <<>>, rlen |-> 0,
           had |-> FALSE, plen |-> 0]

Started(op, key) ==
    [NoCall EXCEPT !.op = op, !.key = key, !.had = Contains(lru, key),
                   !.plen = LRULen(lru)]

\* s without its occurrences of k.
Without(s, k) == SelectSeq(s, LAMBDA x : x # k)

Touched(k) == <<k>> \o Without(touch, k)

\* The history s of the keys that are still present in container c.
Present(s, c) == SelectSeq(s, LAMBDA x : Contains(c, x))

InitLRU ==
    /\ capArg \in CapArgs
    /\ lru = NewBasicLRU(capArg)
    /\ call = NoCall
    /\ touch = <<>>

CallAdd(key, value) ==
    LET r == Add(lru, key, value) IN
    /\ lru' = r.c
    /\ call' = [Started("Add", key) EXCEPT !.value = value,
                              !.ok = r.evicted]
    /\ touch' = Present(Touched(key), r.c)
    /\ UNCHANGED capArg
    /\ UNCHANGED otherThanLRU

CallGet(key) ==
    LET r == Get(lru, key) IN
    /\ lru' = r.c
    /\ call' = [Started("Get", key) EXCEPT !.ok = r.ok,
                              !.rvalue = r.value]
    /\ touch' = IF r.ok THEN Touched(key) ELSE touch
    /\ UNCHANGED capArg
    /\ UNCHANGED otherThanLRU

CallPeek(key) ==
    LET r == Peek(lru, key) IN
    /\ lru' = r.c
    /\ call' = [Started("Peek", key) EXCEPT !.ok = r.ok,
                              !.rvalue = r.value]
    /\ UNCHANGED <<capArg, touch>>
    /\ UNCHANGED otherThanLRU

CallContains(key) ==
    /\ call' = [Started("Contains", key) EXCEPT !.ok = Contains(lru, key)]
    /\ UNCHANGED <<lru, capArg, touch>>
    /\ UNCHANGED otherThanLRU

CallGetOldest ==
    LET r == GetOldest(lru) IN
    /\ call' = [Started("GetOldest", ZeroKey) EXCEPT !.ok = r.ok, !.rkey = r.key,
                              !.rvalue = r.value]
    /\ UNCHANGED <<lru, capArg, touch>>
    /\ UNCHANGED otherThanLRU

CallLen ==
    /\ call' = [Started("Len", ZeroKey) EXCEPT !.rlen = LRULen(lru)]
    /\ UNCHANGED <<lru, capArg, touch>>
    /\ UNCHANGED otherThanLRU

CallKeys ==
    /\ call' = [Started("Keys", ZeroKey) EXCEPT !.rkeys = KeysOf(lru)]
    /\ UNCHANGED <<lru, capArg, touch>>
    /\ UNCHANGED otherThanLRU

CallPurge ==
    /\ lru' = Purge(lru)
    /\ call' = Started("Purge", ZeroKey)
    /\ touch' = Present(touch, Purge(lru))
    /\ UNCHANGED capArg
    /\ UNCHANGED otherThanLRU

CallRemove(key) ==
    LET r == Remove(lru, key) IN
    /\ lru' = r.c
    /\ call' = [Started("Remove", key) EXCEPT !.ok = r.ok]
    /\ touch' = Present(touch, r.c)
    /\ UNCHANGED capArg
    /\ UNCHANGED otherThanLRU

CallRemoveOldest ==
    LET r == RemoveOldest(lru) IN
    /\ lru' = r.c
    /\ call' = [Started("RemoveOldest", ZeroKey) EXCEPT !.ok = r.ok,
                              !.rkey = r.key, !.rvalue = r.value]
    /\ touch' = Present(touch, r.c)
    /\ UNCHANGED capArg
    /\ UNCHANGED otherThanLRU

NextLRU ==
    \/ \E key \in Keys, value \in Values : CallAdd(key, value)
    \/ \E key \in Keys : CallGet(key)
    \/ \E key \in Keys : CallPeek(key)
    \/ \E key \in Keys : CallContains(key)
    \/ CallGetOldest
    \/ CallLen
    \/ CallKeys
    \/ CallPurge
    \/ \E key \in Keys : CallRemove(key)
    \/ CallRemoveOldest

\* A container left alone: the value of lruVars in the specifications that
\* exercise another component.
IdleLRU ==
    /\ capArg = 1
    /\ lru = NewBasicLRU(1)
    /\ call = NoCall
    /\ touch = <<>>

\* ------------------------------------------------ Cache: the locking wrapper
\* The methods of Cache, with their arguments.
CacheMethods == {"Add", "Contains", "Get", "Len", "Peek", "Purge", "Remove", "Keys"}

NoOp == [op |-> "none", key |-> ZeroKey, value |-> ZeroValue]

CacheCalls ==
    {[op |-> "Add", key |-> k, value |-> v] : k \in CacheKeys, v \in Values}
    \cup {[op |-> o, key |-> k, value |-> ZeroValue] :
             o \in {"Contains", "Get", "Peek", "Remove"}, k \in CacheKeys}
    \cup {[op |-> o, key |-> ZeroKey, value |-> ZeroValue] :
             o \in {"Len", "Purge", "Keys"}}

NoLookup == [item |-> ZeroItem, ok |-> FALSE]

NoResult == [ok |-> FALSE, value |-> ZeroValue, keys |-> <<>>, len |-> 0]

\* A faulty mutex, for comparison: Lock returns at once.
NeverBlocks(m) == TRUE

\* sync.Mutex: Lock returns once the mutex is unlocked, and locks it.
Unlocked(m) == m = 0

\* What method o returns on container c, called alone, and the container it
\* leaves: the BasicLRU method of the same name.
Sequential(c, o) ==
    CASE o.op = "Add" ->
           LET r == Add(c, o.key, o.value)
           IN  [c |-> r.c, ret |-> [NoResult EXCEPT !.ok = r.evicted]]
      [] o.op = "Contains" ->
           [c |-> c, ret |-> [NoResult EXCEPT !.ok = Contains(c, o.key)]]
      [] o.op = "Get" ->
           LET r == Get(c, o.key)
           IN  [c |-> r.c, ret |-> [NoResult EXCEPT !.ok = r.ok, !.value = r.value]]
      [] o.op = "Len" ->
           [c |-> c, ret |-> [NoResult EXCEPT !.len = LRULen(c)]]
      [] o.op = "Peek" ->
           LET r == Peek(c, o.key)
           IN  [c |-> r.c, ret |-> [NoResult EXCEPT !.ok = r.ok, !.value = r.value]]
      [] o.op = "Purge" ->
           [c |-> Purge(c), ret |-> NoResult]
      [] o.op = "Remove" ->
           LET r == Remove(c, o.key)
           IN  [c |-> r.c, ret |-> [NoResult EXCEPT !.ok = r.ok]]
      [] o.op = "Keys" ->
           [c |-> c, ret |-> [NoResult EXCEPT !.keys = KeysOf(c)]]

\* The first statement of method o: the map lookup of Add, Contains, Get,
\* Peek and Remove, c.list.init() of Purge.
FirstStatement(c, o) ==
    IF o.op = "Purge" THEN [c EXCEPT !.list = init(c.list)] ELSE c

FirstLookup(c, o) ==
    IF o.op \in {"Add", "Contains", "Get", "Peek", "Remove"}
    THEN Lookup(c, o.key) ELSE NoLookup

\* The rest of method o dereferences a nil pointer: e.prev or e.next of a
\* cell that was unlinked, or the cell removeLast returns for an empty list.
RestPanics(c, o, lk) ==
    \/ o.op = "Add" /\ lk.ok /\ nilDeref(c.list, lk.item.elem)
    \/ o.op = "Add" /\ ~lk.ok /\ LRULen(c) >= c.cap /\ last(c.list) = Nil
    \/ o.op \in {"Get", "Remove"} /\ lk.ok /\ nilDeref(c.list, lk.item.elem)

\* The rest of method o, after its first statement gave lk.
Rest(c, o, lk) ==
    CASE o.op = "Add" ->
           LET r == AddStore(c, o.key, o.value, lk.item, lk.ok)
           IN  [c |-> r.c, ret |-> [NoResult EXCEPT !.ok = r.evicted]]
      [] o.op = "Contains" ->
           [c |-> c, ret |-> [NoResult EXCEPT !.ok = lk.ok]]
      [] o.op = "Get" ->
           LET r == GetTouch(c, lk.item, lk.ok)
           IN  [c |-> r.c, ret |-> [NoResult EXCEPT !.ok = r.ok, !.value = r.value]]
      [] o.op = "Len" ->
           [c |-> c, ret |-> [NoResult EXCEPT !.len = LRULen(c)]]
      [] o.op = "Peek" ->
           [c |-> c, ret |-> [NoResult EXCEPT !.ok = lk.ok, !.value = lk.item.value]]
      [] o.op = "Purge" ->
           LET items1 == [k \in {} |-> ZeroItem]
           IN  [c |-> [c EXCEPT !.items = items1, !.list = collect(c.list, items1)],
                ret |-> NoResult]
      [] o.op = "Remove" ->
           LET r == RemoveItem(c, o.key, lk.item, lk.ok)
           IN  [c |-> r.c, ret |-> [NoResult EXCEPT !.ok = r.ok]]
      [] o.op = "Keys" ->
           [c |-> c, ret |-> [NoResult EXCEPT !.keys = KeysOf(c)]]

IdleCache ==
    /\ cache = NewBasicLRU(1)
    /\ mu = 0
    /\ cpc = [t \in Callers |-> "idle"]
    /\ cop = [t \in Callers |-> NoOp]
    /\ cloc = [t \in Callers |-> NoLookup]
    /\ ref = NewBasicLRU(1)
    /\ agree = TRUE

\* NewCache(capArg)
InitCache ==
    /\ \E cp \in 0..CacheMaxCap : cache = NewBasicLRU(cp) /\ ref = cache
    /\ mu = 0
    /\ cpc = [t \in Callers |-> "idle"]
    /\ cop = [t \in Callers |-> NoOp]
    /\ cloc = [t \in Callers |-> NoLookup]
    /\ agree = TRUE

\* Caller t calls a method of the wrapper and reaches c.mu.Lock().  (Its
\* arguments are fixed here in the program; nothing reads them before the
\* lock is held, and CacheLock draws them.)
CacheCall(t) ==
    /\ cpc[t] = "idle"
    /\ cpc' = [cpc EXCEPT ![t] = "waiting"]
    /\ UNCHANGED <<cache, mu, cop, cloc, ref, agree>>
    /\ UNCHANGED otherThanCache

\* c.mu.Lock() returns.
CacheLock(t, o) ==
    /\ cpc[t] = "waiting"
    /\ Unlocked(mu)
    /\ mu' = t
    /\ cpc' = [cpc EXCEPT ![t] = "locked"]
    /\ cop' = [cop EXCEPT ![t] = o]
    /\ UNCHANGED <<cache, cloc, ref, agree>>
    /\ UNCHANGED otherThanCache

\* The first statement of the BasicLRU method.
CacheBegin(t) ==
    /\ cpc[t] = "locked"
    /\ cloc' = [cloc EXCEPT ![t] = FirstLookup(cache, cop[t])]
    /\ cache' = FirstStatement(cache, cop[t])
    /\ cpc' = [cpc EXCEPT ![t] = "looked"]
    /\ UNCHANGED <<mu, cop, ref, agree>>
    /\ UNCHANGED otherThanCache

\* The rest of the BasicLRU method, the deferred c.mu.Unlock() and the return.
CacheFinish(t) ==
    /\ cpc[t] = "looked"
    /\ IF RestPanics(cache, cop[t], cloc[t])
       THEN /\ cpc' = [cpc EXCEPT ![t] = "panic"]
            /\ UNCHANGED <<cache, ref, agree>>
       ELSE LET r == Rest(cache, cop[t], cloc[t])
                s == Sequential(ref, cop[t])
            IN  /\ cache' = r.c
                /\ ref' = s.c
                /\ agree' = (agree /\ r.ret = s.ret)
                /\ cpc' = [cpc EXCEPT ![t] = "idle"]
    /\ mu' = 0
    /\ cop' = [cop EXCEPT ![t] = NoOp]
    /\ cloc' = [cloc EXCEPT ![t] = NoLookup]
    /\ UNCHANGED otherThanCache

NextCache ==
    \/ \E t \in Callers : CacheCall(t)
    \/ \E t \in Callers, o \in CacheCalls : CacheLock(t, o)
    \/ \E t \in Callers : CacheBegin(t)
    \/ \E t \in Callers : CacheFinish(t)

\* ---------------------------------------- lru[T]: the epoch artifact store
\* The struct lru[T] and newlru are in the source; its method get (Acquire),
\* the artifacts' generation gate and their release are modelled from the
\* specification of the store (Acquire steps 1 to 7, Eviction).
NilArt == 0
NoEpoch == -1

\* A heap slot holding no artifact.
NoArt == [epoch |-> NoEpoch, gate |-> "none", content |-> 0, runs |-> 0,
          released |-> 0]

\* lru.new(epoch): an artifact descriptor, nothing generated.
NewArtifact(epoch) ==
    [epoch |-> epoch, gate |-> "pending", content |-> 0, runs |-> 0,
     released |-> 0]

\* The content the generation algorithm gives for an epoch: a function of the
\* epoch alone, never the empty content 0.
Generated(epoch) == epoch + 1

newlru(maxItems) ==
    [cache |-> NewBasicLRU(maxItems), future |-> 0, futureItem |-> NilArt]

FreeArts(a) == {i \in Artifacts : a[i].gate = "none"}

Fresh(a) == CHOOSE i \in FreeArts(a) : \A j \in FreeArts(a) : i <= j

\* The artifacts the program still refers to: the entries, the future slot,
\* the callers inside Acquire or reading what it returned, the detached tasks.
Held(st, cur, tasks) ==
    {st.cache.items[k].value : k \in DOMAIN st.cache.items}
    \cup {st.futureItem}
    \cup {cur[t] : t \in Acquirers}
    \cup {i \in Artifacts : tasks[i] # "none"}

\* An artifact nothing refers to any more is collected.
sweep(a, st, cur, tasks) ==
    [i \in Artifacts |-> IF i \in Held(st, cur, tasks) THEN a[i] ELSE NoArt]

\* Eviction: the backing resource is released (unmap, close file) before the
\* evicting call returns.
Release(a, ids) ==
    [i \in Artifacts |->
        IF i \in ids
        THEN [a[i] EXCEPT !.released = IF @ < 2 THEN @ + 1 ELSE @, !.content = 0]
        ELSE a[i]]

\* Acquire step 6: the future slot is empty or stale.
Stale(a, futureItem, epoch) ==
    futureItem = NilArt \/ a[futureItem].epoch # epoch + 1

\* Acquire, the part under the store lock (steps 1 to 4 and 6): the store and
\* the heap it leaves, the current artifact, the future artifact constructed.
get(st, a, epoch) ==
    LET promote == st.futureItem # NilArt /\ a[st.futureItem].epoch = epoch
        hit     == Get(st.cache, epoch)
        id1     == Fresh(a)
        current == IF promote THEN st.futureItem
                   ELSE IF hit.ok THEN hit.value ELSE id1
        a1      == IF ~promote /\ ~hit.ok
                   THEN [a EXCEPT ![id1] = NewArtifact(epoch)] ELSE a
        oldest  == GetOldest(st.cache)
        added   == IF promote \/ ~hit.ok
                   THEN Add(st.cache, epoch, current)
                   ELSE [c |-> hit.c, evicted |-> FALSE]
        evicted == IF added.evicted THEN {oldest.value} ELSE {}
        slot    == IF promote THEN NilArt ELSE st.futureItem
        stale   == Stale(a1, slot, epoch)
        id2     == Fresh(a1)
        a2      == IF stale THEN [a1 EXCEPT ![id2] = NewArtifact(epoch + 1)] ELSE a1
        dropped == IF stale /\ slot # NilArt THEN {slot} ELSE {}
    IN  [store    |-> [cache      |-> added.c,
                       future     |-> IF stale THEN epoch + 1
                                      ELSE IF slot = NilArt THEN 0 ELSE st.future,
                       futureItem |-> IF stale THEN id2 ELSE slot],
         arts     |-> Release(a2, evicted \cup dropped),
         current  |-> current,
         future   |-> IF stale THEN id2 ELSE NilArt,
         promoted |-> promote,
         evicted  |-> evicted # {}]

\* The generation gate of an artifact: the first caller to reach it runs the
\* generation, the others wait until it is done.
GateOpen(g) == g = "ready"

GateFirst(g) == g = "pending"

NoAcq == [epoch |-> NoEpoch, promoted |-> FALSE]

IdleStore ==
    /\ store = newlru(1)
    /\ arts = [i \in Artifacts |-> NoArt]
    /\ bg = [i \in Artifacts |-> "none"]
    /\ apc = [t \in Acquirers |-> "idle"]
    /\ acur = [t \in Acquirers |-> NilArt]
    /\ aseen = [t \in Acquirers |-> 0]
    /\ awaited = [t \in Acquirers |-> FALSE]
    /\ solo = NoEpoch
    /\ soloers = {}
    /\ maxReq = NoEpoch
    /\ lastAcq = NoAcq

InitStore ==
    /\ \E maxItems \in 0..StoreMaxCap : store = newlru(maxItems)
    /\ arts = [i \in Artifacts |-> NoArt]
    /\ bg = [i \in Artifacts |-> "none"]
    /\ apc = [t \in Acquirers |-> "idle"]
    /\ acur = [t \in Acquirers |-> NilArt]
    /\ aseen = [t \in Acquirers |-> 0]
    /\ awaited = [t \in Acquirers |-> FALSE]
    /\ solo = NoEpoch
    /\ soloers = {}
    /\ maxReq = NoEpoch
    /\ lastAcq = NoAcq

\* Acquire(epoch) by caller t, the part under the store lock.
Acquire(t, epoch) ==
    /\ apc[t] = "idle"
    /\ Cardinality(FreeArts(arts)) >= 2
    /\ LET r     == get(store, arts, epoch)
           cur   == [acur EXCEPT ![t] = r.current]
           tasks == IF r.future = NilArt THEN bg
                    ELSE [bg EXCEPT ![r.future] = "spawned"]
       IN  /\ store' = r.store
           /\ acur' = cur
           /\ bg' = tasks
           /\ arts' = sweep(r.arts, r.store, cur, tasks)
           /\ lastAcq' = [epoch |-> epoch, promoted |-> r.promoted]
    /\ apc' = [apc EXCEPT ![t] = "gate"]
    /\ solo' = IF epoch = solo \/ ~Contains(store.cache, epoch)
               THEN epoch ELSE NoEpoch
    /\ soloers' = IF epoch = solo THEN soloers \cup {t}
                  ELSE IF ~Contains(store.cache, epoch) THEN {t} ELSE {}
    /\ maxReq' = Max(maxReq, epoch)
    /\ UNCHANGED <<aseen, awaited>>
    /\ UNCHANGED otherThanStore

\* Step 5, the first caller at the gate: it runs the generation.
GenStart(t) ==
    /\ apc[t] = "gate"
    /\ GateFirst(arts[acur[t]].gate)
    /\ arts' = [arts EXCEPT ![acur[t]].gate = "generating",
                            ![acur[t]].runs = IF @ < 2 THEN @ + 1 ELSE @]
    /\ apc' = [apc EXCEPT ![t] = "generating"]
    /\ UNCHANGED <<store, bg, acur, aseen, awaited, solo, soloers,
                   maxReq, lastAcq>>
    /\ UNCHANGED otherThanStore

\* The generation run by caller t completes.
GenFinish(t) ==
    /\ apc[t] = "generating"
    /\ arts' = [arts EXCEPT ![acur[t]].gate = "ready",
                            ![acur[t]].content = Generated(arts[acur[t]].epoch)]
    /\ apc' = [apc EXCEPT ![t] = "gate"]
    /\ UNCHANGED <<store, bg, acur, aseen, awaited, solo, soloers,
                   maxReq, lastAcq>>
    /\ UNCHANGED otherThanStore

\* Step 5, a later caller: it blocks while the generation runs.
GateWait(t) ==
    /\ apc[t] = "gate"
    /\ ~GateFirst(arts[acur[t]].gate) /\ ~GateOpen(arts[acur[t]].gate)
    /\ apc' = [apc EXCEPT ![t] = "blocked"]
    /\ awaited' = [awaited EXCEPT ![t] = TRUE]
    /\ UNCHANGED <<store, arts, bg, acur, aseen, solo, soloers,
                   maxReq, lastAcq>>
    /\ UNCHANGED otherThanStore

\* Step 7: Acquire returns the content of the current artifact.
Return(t) ==
    /\ apc[t] \in {"gate", "blocked"}
    /\ GateOpen(arts[acur[t]].gate)
    /\ apc' = [apc EXCEPT ![t] = "using"]
    /\ aseen' = [aseen EXCEPT ![t] = arts[acur[t]].content]
    /\ UNCHANGED <<store, arts, bg, acur, awaited, solo, soloers,
                   maxReq, lastAcq>>
    /\ UNCHANGED otherThanStore

\* The caller is done with the content Acquire returned.
Done(t) ==
    /\ apc[t] = "using"
    /\ apc' = [apc EXCEPT ![t] = "idle"]
    /\ acur' = [acur EXCEPT ![t] = NilArt]
    /\ aseen' = [aseen EXCEPT ![t] = 0]
    /\ awaited' = [awaited EXCEPT ![t] = FALSE]
    /\ soloers' = soloers \ {t}
    /\ arts' = sweep(arts, store, acur', bg)
    /\ UNCHANGED <<store, bg, solo, maxReq, lastAcq>>
    /\ UNCHANGED otherThanStore

\* Step 6, the detached task of future artifact i reaches the gate first.
BgStart(i) ==
    /\ bg[i] = "spawned"
    /\ GateFirst(arts[i].gate)
    /\ bg' = [bg EXCEPT ![i] = "running"]
    /\ arts' = [arts EXCEPT ![i].gate = "generating",
                            ![i].runs = IF @ < 2 THEN @ + 1 ELSE @]
    /\ UNCHANGED <<store, apc, acur, aseen, awaited, solo, soloers,
                   maxReq, lastAcq>>
    /\ UNCHANGED otherThanStore

\* The generation run by the detached task completes, and the task ends.
BgFinish(i) ==
    /\ bg[i] = "running"
    /\ bg' = [bg EXCEPT ![i] = "none"]
    /\ arts' = sweep([arts EXCEPT ![i].gate = "ready",
                                  ![i].content = Generated(arts[i].epoch)],
                     store, acur, bg')
    /\ UNCHANGED <<store, apc, acur, aseen, awaited, solo, soloers,
                   maxReq, lastAcq>>
    /\ UNCHANGED otherThanStore

\* The detached task finds the artifact generated by a caller, and ends.
BgSkip(i) ==
    /\ bg[i] = "spawned"
    /\ GateOpen(arts[i].gate)
    /\ bg' = [bg EXCEPT ![i] = "none"]
    /\ arts' = sweep(arts, store, acur, bg')
    /\ UNCHANGED <<store, apc, acur, aseen, awaited, solo, soloers,
                   maxReq, lastAcq>>
    /\ UNCHANGED otherThanStore

NextStore ==
    \/ \E t \in Acquirers, epoch \in Epochs : Acquire(t, epoch)
    \/ \E t \in Acquirers : GenStart(t)
    \/ \E t \in Acquirers : GenFinish(t)
    \/ \E t \in Acquirers : GateWait(t)
    \/ \E t \in Acquirers : Return(t)
    \/ \E t \in Acquirers : Done(t)
    \/ \E i \in Artifacts : BgStart(i)
    \/ \E i \in Artifacts : BgFinish(i)
    \/ \E i \in Artifacts : BgSkip(i)

\* ------------------------------------------------------------ reward engine
\* A *big.Int is the address of a heap cell; the heap is the sequence of the
\* cells' values.  The package-level variables are the first cells, then the
\* Number of the header, of each uncle, and the rewards of the schedule.
big8 == 1
big32 == 2
FrontierBlockReward == 3
EIP649FBlockReward == 4
EIP1234FBlockReward == 5
DisinflationRateQuotient == 6
DisinflationRateDivisor == 7
HeaderNumber == 8
ScheduleReward(activation) == HeaderNumber + MaxUncles + 1 + activation
NumFixed == ScheduleReward(MaxActivation)
NilInt == 0

\* The values the package-level variables are initialised with; the three
\* block rewards (5, 3 and 2 ether) are scaled down to 500, 300 and 200.
Globals == <<8, 32, 500, 300, 200, 4, 5>>

\* The reward the schedule gives from an activation height on.
RewardAt(activation) == 27 + 10 * activation

\* new(big.Int), big.NewInt(x): a new cell.
NewInt(h, x) == [h |-> Append(h, x), p |-> Len(h) + 1]

\* z.Exp(x, y, nil) for y >= 0.
RECURSIVE Exp(_, _)
Exp(x, y) == IF y <= 0 THEN 1 ELSE x * Exp(x, y - 1)

\* The fork configurator: transition heights (NoTransition: not
\* configured), the era length, the reward schedule (activation -> *big.Int).
NoTransition == -1
NilConfig == [nil |-> TRUE]
Configs ==
    [ecip1017 : {NoTransition} \cup 1..MaxTransition,
     eip1234 : {NoTransition} \cup 1..MaxTransition,
     eip649 : {NoTransition} \cup 1..MaxTransition,
     eraRounds : 1..MaxEraLen, schedule : SUBSET (0..MaxActivation),
     nil : {FALSE}]

\* config.IsEnabled(getter, n): the transition is configured, n is not nil
\* and the transition height is reached at block h[n].
IsEnabled(transition, n, h) ==
    transition # NoTransition /\ n # NilInt /\ transition <= h[n]

\* c.GetEthashBlockRewardSchedule(): the map activation -> *big.Int.
GetEthashBlockRewardSchedule(c) ==
    [activation \in c.schedule |-> ScheduleReward(activation)]

\* The enumeration orders "range" may take over map m.
Orders(m) ==
    {o \in [1..Cardinality(DOMAIN m) -> DOMAIN m] :
        \A i, j \in 1..Cardinality(DOMAIN m) : i # j => o[i] # o[j]}

\* A faulty loop body, for comparison: the last activation enumerated wins.
walkLast(s, activation, reward, n) ==
    IF activation <= n
    THEN [lastActivation |-> activation, blockReward |-> reward]
    ELSE s

\* EthashBlockReward, the body of "for activation, reward := range ...";
\* n is n.Uint64().
walk(s, activation, reward, n) ==
    IF activation <= n /\ activation >= s.lastActivation
    THEN [lastActivation |-> activation, blockReward |-> reward]
    ELSE s

\* The loop over the schedule m, enumerated in the given order.
walkSchedule(m, order, n) ==
    LET loop[i \in 0..Len(order)] ==
            IF i = 0
            THEN [lastActivation |-> 0, blockReward |-> FrontierBlockReward]
            ELSE walk(loop[i - 1], order[i], m[order[i]], n)
    IN  loop[Len(order)].blockReward

\* A faulty precedence, for comparison: the schedule is consulted first.
ScheduleFirst(c, n, h, order) ==
    LET m == GetEthashBlockRewardSchedule(c) IN
    IF c.nil \/ n = NilInt THEN FrontierBlockReward
    ELSE IF \E a \in DOMAIN m : a <= h[n] THEN walkSchedule(m, order, h[n])
    ELSE IF IsEnabled(c.eip1234, n, h) THEN EIP1234FBlockReward
    ELSE IF IsEnabled(c.eip649, n, h) THEN EIP649FBlockReward
    ELSE FrontierBlockReward

\* A faulty nil test, for comparison: only the configurator is tested, and
\* a nil block number counts as height 0.
NilNumberIsGenesis(c, n, h, order) ==
    IF c.nil THEN FrontierBlockReward
    ELSE IF n = NilInt
    THEN IF Cardinality(DOMAIN GetEthashBlockRewardSchedule(c)) > 0
         THEN walkSchedule(GetEthashBlockRewardSchedule(c), order, 0)
         ELSE FrontierBlockReward
    ELSE IF IsEnabled(c.eip1234, n, h) THEN EIP1234FBlockReward
    ELSE IF IsEnabled(c.eip649, n, h) THEN EIP649FBlockReward
    ELSE IF Cardinality(DOMAIN GetEthashBlockRewardSchedule(c)) > 0
    THEN walkSchedule(GetEthashBlockRewardSchedule(c), order, h[n])
    ELSE FrontierBlockReward

\* EthashBlockReward(c, n) on heap h: n is the address of the block number
\* (NilInt: nil); order is the order in which range enumerates the schedule.
\* The result is the address of the reward, never a copy.
EthashBlockReward(c, n, h, order) ==
    IF c.nil \/ n = NilInt THEN FrontierBlockReward
    ELSE IF IsEnabled(c.eip1234, n, h) THEN EIP1234FBlockReward
    ELSE IF IsEnabled(c.eip649, n, h) THEN EIP649FBlockReward
    ELSE IF Cardinality(DOMAIN GetEthashBlockRewardSchedule(c)) > 0
    THEN walkSchedule(GetEthashBlockRewardSchedule(c), order, h[n])
    ELSE FrontierBlockReward

\* z.Add(x, y), z.Sub(x, y), z.Mul(x, y), z.Div(x, y), z.Mod(x, y),
\* z.Exp(x, y, nil) and z.Set(x) on heap h: cell z receives the result.
BigOp(h, z, op, x, y) ==
    [h EXCEPT ![z] = CASE op = "Add" -> h[x] + h[y]
                       [] op = "Sub" -> h[x] - h[y]
                       [] op = "Mul" -> h[x] * h[y]
                       [] op = "Div" -> h[x] \div h[y]
                       [] op = "Mod" -> h[x] % h[y]
                       [] op = "Exp" -> Exp(h[x], h[y])
                       [] op = "Set" -> h[x]]

\* GetBlockEra(blockNum, eraLength): a new big.Int.
GetBlockEra(h, blockNum, eraLength) ==
    IF h[blockNum] < 1
    THEN NewInt(h, 0)
    ELSE LET one        == Len(h) + 1
             sub        == Len(h) + 2
             remainder  == Len(h) + 3
             base       == Len(h) + 4
             d          == Len(h) + 5
             one2       == Len(h) + 6
             dremainder == Len(h) + 7
             ret        == Len(h) + 8
             h1 == Append(h, 1)
             h2 == BigOp(Append(h1, 0), sub, "Sub", blockNum, one)
             h3 == BigOp(Append(h2, 0), remainder, "Mod", sub, eraLength)
             h4 == BigOp(Append(h3, 0), base, "Sub", blockNum, remainder)
             h5 == BigOp(Append(h4, 0), d, "Div", base, eraLength)
             h6 == Append(h5, 1)
             h7 == BigOp(Append(h6, 0), dremainder, "Mod", d, one2)
             h8 == BigOp(Append(h7, 0), ret, "Sub", d, dremainder)
         IN  [h |-> h8, p |-> ret]

\* A faulty era-0 reward, for comparison: blockReward itself is returned,
\* not a copy of it.
WinnerRewardShared(h, era, blockReward) ==
    IF h[era] = 0
    THEN [h |-> h, p |-> blockReward]
    ELSE LET q  == Len(h) + 1
             d  == Len(h) + 2
             r  == Len(h) + 3
             h1 == Append(Append(Append(h, 0), 0), 0)
             h2 == BigOp(h1, q, "Exp", DisinflationRateQuotient, era)
             h3 == BigOp(h2, d, "Exp", DisinflationRateDivisor, era)
             h4 == BigOp(h3, r, "Mul", blockReward, q)
             h5 == BigOp(h4, r, "Div", r, d)
         IN  [h |-> h5, p |-> r]

\* A faulty disinflation, for comparison: one truncating division per era.
WinnerRewardRounded(h, era, blockReward) ==
    LET r[i \in 0..Max(h[era], 0)] ==
            IF i = 0 THEN h[blockReward]
            ELSE (r[i - 1] * h[DisinflationRateQuotient])
                     \div h[DisinflationRateDivisor]
    IN  NewInt(h, r[Max(h[era], 0)])

\* GetBlockWinnerRewardByEra(era, blockReward): a new big.Int.
GetBlockWinnerRewardByEra(h, era, blockReward) ==
    IF h[era] = 0
    THEN [h |-> BigOp(Append(h, 0), Len(h) + 1, "Set", blockReward,
                         blockReward),
          p |-> Len(h) + 1]
    ELSE LET q  == Len(h) + 1
             d  == Len(h) + 2
             r  == Len(h) + 3
             h1 == Append(Append(Append(h, 0), 0), 0)
             h2 == BigOp(h1, q, "Exp", DisinflationRateQuotient, era)
             h3 == BigOp(h2, d, "Exp", DisinflationRateDivisor, era)
             h4 == BigOp(h3, r, "Mul", blockReward, q)
             h5 == BigOp(h4, r, "Div", r, d)
         IN  [h |-> h5, p |-> r]

\* new(big.Int).Div(x, y), x the big.Int a call returned on its heap.
NewDiv(x, y) == NewInt(x.h, x.h[x.p] \div x.h[y])

\* getEraUncleBlockReward(era, blockReward): a new big.Int.
getEraUncleBlockReward(h, era, blockReward) ==
    NewDiv(GetBlockWinnerRewardByEra(h, era, blockReward), big32)

\* A faulty uncle reward, for comparison: the distance formula in every era.
UncleRewardByDistance(h, era, header, uncle, blockReward) ==
    NewInt(h, ((h[uncle] + h[big8] - h[header]) * h[blockReward]) \div h[big8])

\* GetBlockUncleRewardByEra(era, header, uncle, blockReward); header and
\* uncle are the addresses of their Number.
GetBlockUncleRewardByEra(h, era, header, uncle, blockReward) ==
    IF h[era] = 0
    THEN LET r  == Len(h) + 1
             h1 == BigOp(Append(h, 0), r, "Add", uncle, big8)
             h2 == BigOp(h1, r, "Sub", r, header)
             h3 == BigOp(h2, r, "Mul", r, blockReward)
             h4 == BigOp(h3, r, "Div", r, big8)
         IN  [h |-> h4, p |-> r]
    ELSE getEraUncleBlockReward(h, era, blockReward)

\* r.Add(r, x), x the big.Int a call returned on its heap.
AddReturned(x, r) == BigOp(x.h, r, "Add", r, x.p)

\* GetBlockWinnerRewardForUnclesByEra(era, uncles, blockReward).
GetBlockWinnerRewardForUnclesByEra(h, era, uncles, blockReward) ==
    LET r == Len(h) + 1
        loop[i \in 0..Len(uncles)] ==
            IF i = 0 THEN Append(h, 0)
            ELSE AddReturned(getEraUncleBlockReward(loop[i - 1], era,
                                                    blockReward), r)
    IN  [h |-> loop[Len(uncles)], p |-> r]

\* ecip1017BlockReward, "uncleRewards[i] = ur" with ur the big.Int the call
\* returned on its heap.
StoreUncleReward(s, ur) ==
    [s EXCEPT !.h = ur.h, !.uncleRewards = Append(@, ur.p)]

\* ecip1017BlockReward, the body of "for i, uncle := range uncles".
eraUncle(s, era, header, uncle, blockReward) ==
    StoreUncleReward(s, GetBlockUncleRewardByEra(s.h, era, header, uncle,
                                                 blockReward))

\* ecip1017BlockReward from "wr.Add(wr, wurs)" on: wr is the address of the
\* winner's reward, wurs what GetBlockWinnerRewardForUnclesByEra returned.
ecip1017Uncles(era, wr, wurs, header, uncles, blockReward) ==
    LET loop[i \in 0..Len(uncles)] ==
            IF i = 0
            THEN [h |-> BigOp(wurs.h, wr, "Add", wr, wurs.p), reward |-> wr,
                  uncleRewards |-> <<>>, path |-> "era",
                  era |-> wurs.h[era]]
            ELSE eraUncle(loop[i - 1], era, header, uncles[i], blockReward)
    IN  loop[Len(uncles)]

\* ecip1017BlockReward from "wurs := ..." on: wr is what
\* GetBlockWinnerRewardByEra returned.
ecip1017Winner(era, wr, header, uncles, blockReward) ==
    ecip1017Uncles(era, wr.p,
                   GetBlockWinnerRewardForUnclesByEra(wr.h, era, uncles,
                                                      blockReward),
                   header, uncles, blockReward)

\* ecip1017BlockReward from "wr := ..." on: era is what GetBlockEra returned.
ecip1017Era(era, header, uncles, blockReward) ==
    ecip1017Winner(era.p,
                   GetBlockWinnerRewardByEra(era.h, era.p, blockReward),
                   header, uncles, blockReward)

\* ecip1017BlockReward(config, header, uncles): the era path.  header and
\* uncles[i] are the addresses of the Number fields.  The result is the
\* heap, the addresses of the winner's and of the uncles' rewards, and the
\* era the block is in.
ecip1017BlockReward(h, config, header, uncles) ==
    ecip1017Era(GetBlockEra(Append(h, config.eraRounds), header, Len(h) + 1),
                header, uncles, FrontierBlockReward)

\* A faulty loop body, for comparison: r itself stored, not a copy of it.
flatUncleShared(s, uncle, header, blockReward, r, reward) ==
    LET h1 == BigOp(s.h, r, "Add", uncle, big8)
        h2 == BigOp(h1, r, "Sub", r, header)
        h3 == BigOp(h2, r, "Mul", r, blockReward)
        h4 == BigOp(h3, r, "Div", r, big8)
        h6 == BigOp(h4, r, "Div", blockReward, big32)
        h7 == BigOp(h6, reward, "Add", reward, r)
    IN  [s EXCEPT !.h = h7, !.uncleRewards = Append(@, r)]

\* GetRewards, the body of "for i, uncle := range uncles".
flatUncle(s, uncle, header, blockReward, r, reward) ==
    LET ur == Len(s.h) + 1
        h1 == BigOp(s.h, r, "Add", uncle, big8)
        h2 == BigOp(h1, r, "Sub", r, header)
        h3 == BigOp(h2, r, "Mul", r, blockReward)
        h4 == BigOp(h3, r, "Div", r, big8)
        h5 == BigOp(Append(h4, 0), ur, "Set", r, r)
        h6 == BigOp(h5, r, "Div", blockReward, big32)
        h7 == BigOp(h6, reward, "Add", reward, r)
    IN  [s EXCEPT !.h = h7, !.uncleRewards = Append(@, ur)]

\* GetRewards after the ECIP-1017 test: the flat path.
flatBlockReward(h, config, header, uncles, order) ==
    LET blockReward == EthashBlockReward(config, header, h, order)
        reward == Len(h) + 1
        r      == Len(h) + 2
        loop[i \in 0..Len(uncles)] ==
            IF i = 0
            THEN [h |-> Append(BigOp(Append(h, 0), reward, "Set", blockReward,
                                     blockReward), 0),
                  reward |-> reward,
                  uncleRewards |-> <<>>, path |-> "flat", era |-> 0]
            ELSE flatUncle(loop[i - 1], uncles[i], header, blockReward, r,
                           reward)
    IN  loop[Len(uncles)]

\* A faulty dispatch, for comparison: an enabled EIP-1234 or EIP-649
\* transition takes the flat path.
GetRewardsFlatWins(h, config, header, uncles, order) ==
    IF /\ IsEnabled(config.ecip1017, header, h)
       /\ ~IsEnabled(config.eip1234, header, h)
       /\ ~IsEnabled(config.eip649, header, h)
    THEN ecip1017BlockReward(h, config, header, uncles)
    ELSE flatBlockReward(h, config, header, uncles, order)

\* GetRewards(config, header, uncles) on heap h.
GetRewards(h, config, header, uncles, order) ==
    IF IsEnabled(config.ecip1017, header, h)
    THEN ecip1017BlockReward(h, config, header, uncles)
    ELSE flatBlockReward(h, config, header, uncles, order)

\* header.Coinbase and uncle.Coinbase: a header is known by the address of
\* its Number, and its coinbase is 0 for the block's header and i for the
\* i-th uncle's.
Coinbase(header) == header - HeaderNumber

\* state.AddBalance(address, amount): the state mutator is external; state
\* is the sequence of the calls it has received, amount the value passed.
AddBalance(state, address, amount) ==
    Append(state, [address |-> address, amount |-> amount])

\* A faulty crediting, for comparison: the block's coinbase is credited
\* before the uncles'.
AddBalancesMinerFirst(state, r, header, uncles) ==
    LET loop[i \in 0..Len(uncles)] ==
            IF i = 0
            THEN AddBalance(state, Coinbase(header), r.h[r.reward])
            ELSE AddBalance(loop[i - 1], Coinbase(uncles[i]),
                            r.h[r.uncleRewards[i]])
    IN  [h |-> r.h, state |-> loop[Len(uncles)], rewards |-> r]

\* AccumulateRewards after the call of GetRewards, r being what it returned:
\* the loop over the uncles, then the credit of the block's coinbase.
AddBalances(state, r, header, uncles) ==
    LET loop[i \in 0..Len(uncles)] ==
            IF i = 0 THEN state
            ELSE AddBalance(loop[i - 1], Coinbase(uncles[i]),
                            r.h[r.uncleRewards[i]])
    IN  [h |-> r.h,
         state |-> AddBalance(loop[Len(uncles)], Coinbase(header),
                              r.h[r.reward]),
         rewards |-> r]

\* AccumulateRewards(config, state, header, uncles) on heap h.
AccumulateRewards(h, config, state, header, uncles, order) ==
    AddBalances(state, GetRewards(h, config, header, uncles, order), header,
                uncles)

\* ---------------------------------------------------- calls of the engine
UncleLists(number) ==
    UNION {[1..k -> {u \in 0..MaxNumber : u < number /\ number - u <= MaxDepth}] :
              k \in 0..MaxUncles}

NoRewardCall ==
    [op |-> "none", reward |-> 0, uncleRewards |-> <<>>, value |-> 0,
     p |-> NilInt, path |-> "none", era |-> 0, credits |-> <<>>]

InitMem ==
    [i \in 1..NumFixed |->
        IF i <= Len(Globals) THEN Globals[i]
        ELSE IF i >= ScheduleReward(0) THEN RewardAt(i - ScheduleReward(0))
        ELSE 0]

\* An engine nobody calls.
IdleReward ==
    /\ rin = [config |-> NilConfig, number |-> 0, uncles |-> <<>>, order |-> <<>>]
    /\ mem = InitMem
    /\ rcall = NoRewardCall

\* The arguments of the calls: a configurator, the Number of the header,
\* the Number of each uncle, and the order in which range enumerates the
\* schedule during the call.
InitReward ==
    /\ \E config \in Configs, number \in (-1)..MaxNumber :
         \E uncles \in UncleLists(number),
            order \in Orders(GetEthashBlockRewardSchedule(config)) :
              rin = [config |-> config, number |-> number, uncles |-> uncles,
                     order |-> order]
    /\ mem = [i \in 1..NumFixed |->
                IF i = HeaderNumber THEN rin.number
                ELSE IF i > HeaderNumber /\ i <= HeaderNumber + Len(rin.uncles)
                THEN rin.uncles[i - HeaderNumber]
                ELSE InitMem[i]]
    /\ rcall = NoRewardCall

\* What a call of GetRewards leaves: the values of the rewards it returned.
GetRewardsCall(r) ==
    [NoRewardCall EXCEPT
       !.op = "GetRewards", !.reward = r.h[r.reward],
       !.uncleRewards = [i \in 1..Len(r.uncleRewards) |->
                            r.h[r.uncleRewards[i]]],
       !.path = r.path, !.era = r.era]

\* What a call returning one big.Int leaves: its value and its address.
IntCall(op, r) == [NoRewardCall EXCEPT !.op = op, !.value = r.h[r.p], !.p = r.p]

\* The uncles of the call: the addresses of their Number.
Uncles == [i \in 1..Len(rin.uncles) |-> HeaderNumber + i]

\* The engine keeps nothing between calls: a behaviour is one call, of any
\* of the functions, on the arguments drawn.
\* GetRewards(config, header, uncles).
CallGetRewards ==
    /\ rcall = NoRewardCall
    /\ rin.number >= 0
    /\ rcall' = GetRewardsCall(GetRewards(mem, rin.config, HeaderNumber,
                                          Uncles, rin.order))
    /\ mem' = SubSeq(GetRewards(mem, rin.config, HeaderNumber, Uncles,
                               rin.order).h,
                   1, NumFixed)
    /\ UNCHANGED rin
    /\ UNCHANGED otherThanReward

\* What a call of AccumulateRewards leaves: the rewards GetRewards returned
\* to it and the calls the state mutator received.
AccumulateRewardsCall(a) ==
    [GetRewardsCall(a.rewards) EXCEPT
       !.op = "AccumulateRewards", !.credits = a.state]

\* AccumulateRewards(config, state, header, uncles), on a state mutator that
\* has received no call.
CallAccumulateRewards ==
    /\ rcall = NoRewardCall
    /\ rin.number >= 0
    /\ rcall' = AccumulateRewardsCall(
                    AccumulateRewards(mem, rin.config, <<>>, HeaderNumber,
                                      Uncles, rin.order))
    /\ mem' = SubSeq(AccumulateRewards(mem, rin.config, <<>>, HeaderNumber,
                                       Uncles, rin.order).h,
                     1, NumFixed)
    /\ UNCHANGED rin
    /\ UNCHANGED otherThanReward

\* EthashBlockReward(config, header.Number).
CallEthashBlockReward ==
    /\ rcall = NoRewardCall
    /\ rin.number >= 0
    /\ rcall' = IntCall("EthashBlockReward",
                        [h |-> mem,
                         p |-> EthashBlockReward(rin.config, HeaderNumber, mem,
                                                 rin.order)])
    /\ UNCHANGED <<rin, mem>>
    /\ UNCHANGED otherThanReward

\* EthashBlockReward(nil, header.Number), EthashBlockReward(config, nil) and
\* EthashBlockReward(nil, nil).
CallEthashBlockRewardNil ==
    /\ rcall = NoRewardCall
    /\ rin.number >= 0
    /\ \E nilConfig, nilNumber \in BOOLEAN :
         /\ nilConfig \/ nilNumber
         /\ rcall' =
              [IntCall("EthashBlockReward",
                       [h |-> mem,
                        p |-> EthashBlockReward(
                                  IF nilConfig THEN NilConfig ELSE rin.config,
                                  IF nilNumber THEN NilInt ELSE HeaderNumber,
                                  mem, rin.order)])
                 EXCEPT !.op = IF nilConfig /\ nilNumber
                               THEN "EthashBlockReward(nil, nil)"
                               ELSE IF nilConfig
                               THEN "EthashBlockReward(nil, n)"
                               ELSE "EthashBlockReward(c, nil)"]
    /\ UNCHANGED <<rin, mem>>
    /\ UNCHANGED otherThanReward

\* GetBlockEra(header.Number, eraLength), eraLength a new big.Int holding
\* the configured era length.
CallGetBlockEra ==
    /\ rcall = NoRewardCall
    /\ rcall' = IntCall("GetBlockEra",
                        GetBlockEra(Append(mem, rin.config.eraRounds),
                                    HeaderNumber, Len(mem) + 1))
    /\ mem' = SubSeq(GetBlockEra(Append(mem, rin.config.eraRounds),
                                HeaderNumber, Len(mem) + 1).h,
                   1, NumFixed)
    /\ UNCHANGED rin
    /\ UNCHANGED otherThanReward

\* GetBlockWinnerRewardByEra(era, blockReward), era a new big.Int holding
\* header.Number and blockReward the reward EthashBlockReward selects.
CallGetBlockWinnerRewardByEra ==
    /\ rcall = NoRewardCall
    /\ rin.number >= 0
    /\ rcall' = IntCall("GetBlockWinnerRewardByEra",
                        GetBlockWinnerRewardByEra(
                            Append(mem, rin.number), Len(mem) + 1,
                            EthashBlockReward(rin.config, HeaderNumber, mem,
                                              rin.order)))
    /\ mem' = SubSeq(GetBlockWinnerRewardByEra(
                        Append(mem, rin.number), Len(mem) + 1,
                        EthashBlockReward(rin.config, HeaderNumber, mem,
                                          rin.order)).h,
                   1, NumFixed)
    /\ UNCHANGED rin
    /\ UNCHANGED otherThanReward

NextReward ==
    \/ CallGetRewards
    \/ CallAccumulateRewards
    \/ CallEthashBlockReward
    \/ CallEthashBlockRewardNil
    \/ CallGetBlockEra
    \/ CallGetBlockWinnerRewardByEra

\* ---------------------------------------------------------- specifications
vars == <<lruVars, cacheVars, storeVars, rewardVars>>

Init == InitLRU /\ IdleCache /\ IdleStore /\ IdleReward

Next == NextLRU

Spec == Init /\ [][Next]_vars

InitC == IdleLRU /\ InitCache /\ IdleStore /\ IdleReward

SpecCache == InitC /\ [][NextCache]_vars

InitS == IdleLRU /\ IdleCache /\ InitStore /\ IdleReward

SpecStore == InitS /\ [][NextStore]_vars

InitR == IdleLRU /\ IdleCache /\ IdleStore /\ InitReward

SpecReward == InitR /\ [][NextReward]_vars

\* ------------------------------------------------------ claims on BasicLRU
\* The keys of c read along the next pointers: the front of the list first.
RECURSIVE walkNext(_, _, _)
walkNext(l, e, n) ==
    IF e = Root \/ e = Nil \/ n = 0 THEN <<>>
    ELSE <<l.v[e]>> \o walkNext(l, l.next[e], n - 1)

FrontToBack(c) == walkNext(c.list, c.list.next[Root], NumElems + 1)

KeySet(c) == DOMAIN c.items

\* The place of key k in the touch history (1: touched last).
Pos(k) == CHOOSE i \in 1..Len(touch) : touch[i] = k

\* C1: a container built with capArg c >= 1 never holds more than c
\* entries, whatever calls were made on it.
C1_LenAtMostCapacity ==
    capArg >= 1 => LRULen(lru) <= capArg

C1_Witness ==
    /\ capArg >= 2
    /\ call.op = "Add" /\ ~call.had /\ call.ok
    /\ call.plen = capArg
    /\ LRULen(lru) = capArg

\* C2: Add of a key that is present replaces its value, makes it the most
\* recently used key, reports evicted = false and removes nothing: the key
\* set and Len() are as before, also at capArg.  (Unprimed: the container
\* when Add is called; primed: when it returns.)
C2_AddExisting ==
    [][(call'.op = "Add" /\ call'.key \in KeySet(lru)) =>
        /\ lru'.items[call'.key].value = call'.value
        /\ FrontToBack(lru')[1] = call'.key
        /\ touch'[1] = call'.key
        /\ call'.ok = FALSE
        /\ KeySet(lru') = KeySet(lru)
        /\ LRULen(lru') = LRULen(lru)]_vars

C2_Witness ==
    /\ call.op = "Add" /\ call.had /\ ~call.ok
    /\ call.plen = lru.cap /\ lru.cap >= 2
    /\ LRULen(lru) = lru.cap
    /\ FrontToBack(lru)[1] = call.key

\* C3: Add of a key that is absent: at capArg it removes exactly the least
\* recently used entry, inserts the key as most recently used and reports
\* evicted = true; below capArg it removes nothing, inserts the key as
\* most recently used and reports evicted = false.
C3_AddAbsent ==
    [][(call'.op = "Add" /\ call'.key \notin KeySet(lru)) =>
        /\ lru'.items[call'.key].value = call'.value
        /\ FrontToBack(lru')[1] = call'.key
        /\ IF LRULen(lru) = lru.cap
           THEN /\ call'.ok = TRUE
                /\ \E old \in KeySet(lru) :
                     /\ KeySet(lru') = (KeySet(lru) \ {old}) \cup {call'.key}
                     /\ \A k \in KeySet(lru) \ {old} : Pos(k) < Pos(old)
           ELSE /\ LRULen(lru) < lru.cap
                /\ call'.ok = FALSE
                /\ KeySet(lru') = KeySet(lru) \cup {call'.key}]_vars

C3_Witness ==
    /\ call.op = "Add" /\ ~call.had /\ call.ok
    /\ call.plen = lru.cap /\ lru.cap >= 2
    /\ LRULen(lru) = lru.cap
    /\ FrontToBack(lru)[1] = call.key

\* C4: RemoveOldest on a non-empty container removes and returns the key
\* whose last touch (an Add of it or a Get hit on it) is the oldest among
\* the keys present; Peek, Contains, GetOldest, Len and Keys are no touches.
\* On an empty container it returns ok = false and changes nothing.
C4_RemoveOldestIsLeastRecentlyTouched ==
    [][call'.op = "RemoveOldest" =>
        IF KeySet(lru) = {}
        THEN call'.ok = FALSE /\ lru' = lru
        ELSE /\ call'.ok = TRUE
             /\ call'.rkey \in KeySet(lru)
             /\ call'.rvalue = lru.items[call'.rkey].value
             /\ KeySet(lru') = KeySet(lru) \ {call'.rkey}
             /\ \A k \in KeySet(lru') :
                  /\ Pos(k) < Pos(call'.rkey)
                  /\ lru'.items[k].value = lru.items[k].value]_vars

C4_Witness ==
    /\ call.op = "RemoveOldest" /\ call.ok
    /\ call.plen >= 2

\* C11 as stated: Keys() returns every key of the container exactly once,
\* the most recently used first (the key touched last by Add or Get first,
\* the key RemoveOldest would remove last).
C11_KeysMostRecentFirst ==
    call.op = "Keys" => call.rkeys = touch

\* C11 amended: Keys() returns every key of the container exactly once, the
\* least recently used first: the first element is the key RemoveOldest
\* would remove, the last element the key touched last by Add or Get.
C11_KeysLeastRecentFirst ==
    call.op = "Keys" =>
        /\ call.rkeys = [i \in 1..Len(touch) |-> touch[Len(touch) + 1 - i]]
        /\ {call.rkeys[i] : i \in 1..Len(call.rkeys)} = KeySet(lru)
        /\ Len(call.rkeys) = LRULen(lru)
        /\ Len(call.rkeys) >= 1 =>
              /\ call.rkeys[1] = RemoveOldest(lru).key
              /\ call.rkeys[Len(call.rkeys)] = touch[1]

\* Keys() was called on a container of two keys or more.
C11_Witness ==
    /\ call.op = "Keys"
    /\ Len(call.rkeys) >= 2
    /\ call.rkeys[1] # call.rkeys[2]

\* C12: Peek, Contains, GetOldest, Len and Keys leave the container as it
\* was (map, values, recency list), so the key GetOldest names is the same
\* after a Peek hit on it; a Get hit on that key, other keys being present,
\* makes another key the oldest.
C12_ReadsLeaveContainerUnchanged ==
    [][ /\ call'.op \in {"Peek", "Contains", "GetOldest", "Len", "Keys"} =>
              /\ lru' = lru
              /\ GetOldest(lru') = GetOldest(lru)
        /\ ( /\ call'.op = "Get" /\ call'.ok
             /\ LRULen(lru) >= 2
             /\ GetOldest(lru).key = call'.key ) =>
                 /\ GetOldest(lru').key # call'.key
                 /\ FrontToBack(lru')[1] = call'.key
      ]_vars

\* A Peek hit on the least recently used of two or more keys: it is still
\* the oldest.
C12_Witness ==
    /\ call.op = "Peek" /\ call.ok
    /\ LRULen(lru) >= 2
    /\ GetOldest(lru).key = call.key

\* C13: a container constructed with capacity <= 0 is one of capacity 1: it
\* never holds more than one entry, and an Add of an absent key to the
\* non-empty container evicts the entry present and returns evicted = true.
C13_NonPositiveCapacityIsOne ==
    capArg <= 0 =>
        /\ lru.cap = 1
        /\ LRULen(lru) <= 1
        /\ (call.op = "Add" /\ ~call.had /\ call.plen = 1) =>
              /\ call.ok
              /\ KeySet(lru) = {call.key}

\* An Add of an absent key to the non-empty container made with capacity
\* <= 0 has evicted the entry that was present.
C13_Witness ==
    /\ capArg <= 0
    /\ call.op = "Add" /\ ~call.had /\ call.plen = 1
    /\ call.ok

\* ------------------------------------------------ claims on the epoch store
\* The artifacts that are entries of the store.
Entries(st) == {st.cache.items[k].value : k \in DOMAIN st.cache.items}

\* The callers reading the content Acquire returned to them.
Readers(i) == {t \in Acquirers : acur[t] = i /\ apc[t] = "using"}

\* C5: callers concurrently asking Acquire for one epoch that was not in the
\* store all get the same artifact; its generation routine runs at most once
\* and, by the time a caller has returned, exactly once and to completion;
\* every caller is returned the content that run produced.
C5_GenerateOnce ==
    solo # NoEpoch =>
        /\ \A t1, t2 \in soloers : acur[t1] = acur[t2]
        /\ \A t \in soloers :
              /\ acur[t] # NilArt
              /\ arts[acur[t]].epoch = solo
              /\ arts[acur[t]].runs <= 1
              /\ apc[t] = "using" =>
                    /\ arts[acur[t]].gate = "ready"
                    /\ arts[acur[t]].runs = 1
                    /\ aseen[t] = Generated(solo)

\* Two callers asked for the same absent epoch, one of them had to wait at
\* the gate, and both have returned with the generated content.
C5_Witness ==
    /\ solo # NoEpoch
    /\ Cardinality(soloers) >= 2
    /\ \A t \in soloers : apc[t] = "using" /\ aseen[t] = Generated(solo)
    /\ \E t \in soloers : awaited[t]

\* C6: an Acquire(e) that finds the artifact for epoch e in the future slot
\* returns that very artifact, leaves it as the entry under key e, and leaves
\* in the future slot a newly constructed artifact for epoch e + 1.
C6_Promotion ==
    [][\A t \in Acquirers :
          ( /\ apc[t] = "idle" /\ apc'[t] = "gate"
            /\ store.futureItem # NilArt
            /\ arts[store.futureItem].epoch = lastAcq'.epoch )
          => /\ acur'[t] = store.futureItem
             /\ arts'[store.futureItem].epoch = lastAcq'.epoch
             /\ Lookup(store'.cache, lastAcq'.epoch).ok
             /\ Lookup(store'.cache, lastAcq'.epoch).item.value = store.futureItem
             /\ store'.futureItem \notin {NilArt, store.futureItem}
             /\ arts[store'.futureItem].gate = "none"
             /\ arts'[store'.futureItem].epoch = lastAcq'.epoch + 1
      ]_vars

\* The last Acquire promoted the future slot: its epoch is an entry and the
\* slot holds the next epoch.
C6_Witness ==
    /\ lastAcq.promoted
    /\ Contains(store.cache, lastAcq.epoch)
    /\ store.futureItem # NilArt
    /\ arts[store.futureItem].epoch = lastAcq.epoch + 1

\* C7: the store never has more entries than its capacity, the future slot
\* not counted, and the epoch of the future slot is not the key of an entry.
C7_FutureIsNoEntry ==
    /\ LRULen(store.cache) <= store.cache.cap
    /\ store.futureItem # NilArt =>
          ~Contains(store.cache, arts[store.futureItem].epoch)

\* C8: the future slot, when present, holds the artifact for the highest
\* epoch ever asked for, plus one.
C8_FutureIsHighestPlusOne ==
    store.futureItem # NilArt =>
        arts[store.futureItem].epoch = maxReq + 1

\* C9: an artifact is released at most once, never while a caller reads the
\* content Acquire returned to it, and exactly once when it has left the
\* entries and the future slot.
C9_ReleasedOnceAndUnused ==
    \A i \in Artifacts :
        arts[i].gate # "none" =>
            /\ arts[i].released <= 1
            /\ Readers(i) # {} => arts[i].released = 0
            /\ i \notin Entries(store) \cup {store.futureItem} =>
                  arts[i].released = 1

C14_ScheduleBeforeForks ==
    rcall.op = "EthashBlockReward" =>
        LET n == rin.number
            c == rin.config
            applies == {a \in c.schedule : a <= n}
        IN  rcall.value =
                IF applies # {}
                THEN RewardAt(CHOOSE a \in applies : \A b \in applies : b <= a)
                ELSE IF c.eip1234 # NoTransition /\ c.eip1234 <= n
                THEN Globals[EIP1234FBlockReward]
                ELSE IF c.eip649 # NoTransition /\ c.eip649 <= n
                THEN Globals[EIP649FBlockReward]
                ELSE Globals[FrontierBlockReward]

\* C14, amended: EthashBlockReward(config, n) is the EIP-1234 constant when
\* that transition is enabled at n, else the EIP-649 constant when that
\* transition is enabled at n, else the reward of the schedule entry with the
\* greatest activation height <= n when the schedule has such an entry, else
\* the base (Frontier) constant.
C14_ForksBeforeSchedule ==
    rcall.op = "EthashBlockReward" =>
        LET n == rin.number
            c == rin.config
            applies == {a \in c.schedule : a <= n}
        IN  rcall.value =
                IF c.eip1234 # NoTransition /\ c.eip1234 <= n
                THEN Globals[EIP1234FBlockReward]
                ELSE IF c.eip649 # NoTransition /\ c.eip649 <= n
                THEN Globals[EIP649FBlockReward]
                ELSE IF applies # {}
                THEN RewardAt(CHOOSE a \in applies : \A b \in applies : b <= a)
                ELSE Globals[FrontierBlockReward]

\* EthashBlockReward has returned the EIP-1234 constant for a height at which
\* two schedule entries apply as well.
C14_Witness ==
    /\ rcall.op = "EthashBlockReward"
    /\ rin.config.eip1234 # NoTransition /\ rin.config.eip1234 <= rin.number
    /\ Cardinality({a \in rin.config.schedule : a <= rin.number}) = 2
    /\ rcall.value = Globals[EIP1234FBlockReward]

\* C15: GetRewards takes the era (ECIP-1017) path exactly when
\* config.IsEnabled(ECIP1017Transition, header.Number) is true and the flat
\* path otherwise; when the era transition is enabled, what it returns is
\* what it returns for the configurator with no EIP-1234 transition, no
\* EIP-649 transition and an empty reward schedule, so it depends on none of
\* the three.
C15_EraPathWhenEnabled ==
    rcall.op = "GetRewards" =>
        /\ rcall.path = IF IsEnabled(rin.config.ecip1017, HeaderNumber, mem)
                        THEN "era" ELSE "flat"
        /\ IsEnabled(rin.config.ecip1017, HeaderNumber, mem) =>
              rcall = GetRewardsCall(GetRewards(
                          mem,
                          [rin.config EXCEPT !.eip1234 = NoTransition,
                                             !.eip649 = NoTransition,
                                             !.schedule = {}],
                          HeaderNumber, Uncles, <<>>))

\* GetRewards has taken the era path, for a block with an uncle, under a
\* configurator whose EIP-1234 and EIP-649 transitions are enabled as well
\* and whose schedule has an entry that applies.
C15_Witness ==
    /\ rcall.op = "GetRewards" /\ rcall.path = "era"
    /\ IsEnabled(rin.config.eip1234, HeaderNumber, mem)
    /\ IsEnabled(rin.config.eip649, HeaderNumber, mem)
    /\ \E a \in rin.config.schedule : a <= rin.number
    /\ Len(rin.uncles) >= 1

\* C16: when EthashBlockReward consults the reward schedule (neither the
\* EIP-1234 nor the EIP-649 transition is enabled and the schedule is not
\* empty), it returns the reward of the greatest activation height <= the
\* target height, and the base reward when no activation is <= the target,
\* in whatever order range enumerates the map: every enumeration order of the
\* same schedule gives the reward the call returned.
C16_ScheduleOrderIndependent ==
    (/\ rcall.op = "EthashBlockReward"
     /\ ~IsEnabled(rin.config.eip1234, HeaderNumber, mem)
     /\ ~IsEnabled(rin.config.eip649, HeaderNumber, mem)
     /\ rin.config.schedule # {}) =>
        LET applies == {a \in rin.config.schedule : a <= rin.number}
        IN  /\ rcall.value =
                  IF applies # {}
                  THEN RewardAt(CHOOSE a \in applies :
                                    \A b \in applies : b <= a)
                  ELSE Globals[FrontierBlockReward]
            /\ \A order \in Orders(GetEthashBlockRewardSchedule(rin.config)) :
                  mem[EthashBlockReward(rin.config, HeaderNumber, mem, order)]
                      = rcall.value

\* EthashBlockReward has walked a schedule of two applicable entries that
\* range enumerated greatest activation first, and returned the reward of
\* the greatest.
C16_Witness ==
    /\ rcall.op = "EthashBlockReward"
    /\ ~IsEnabled(rin.config.eip1234, HeaderNumber, mem)
    /\ ~IsEnabled(rin.config.eip649, HeaderNumber, mem)
    /\ rin.config.schedule = {0, 1} /\ rin.number >= 1
    /\ rin.order = <<1, 0>>
    /\ rcall.value = RewardAt(1)

\* C17: on the flat path, with blockReward the reward EthashBlockReward
\* selects for the header, uncleRewards[i] is
\* floor(blockReward * (uncles[i].Number + 8 - header.Number) / 8) for every
\* index i of every list of uncles, and the miner's reward is
\* blockReward + len(uncles) * floor(blockReward / 32).  The rewards are read
\* once the call has returned, so the value stored for an earlier uncle is
\* the one it was given, whatever was computed for the later uncles.
C17_FlatRewards ==
    (rcall.op = "GetRewards" /\ rcall.path = "flat") =>
        LET blockReward == mem[EthashBlockReward(rin.config, HeaderNumber, mem,
                                                 rin.order)]
        IN  /\ Len(rcall.uncleRewards) = Len(rin.uncles)
            /\ \A i \in 1..Len(rin.uncles) :
                  rcall.uncleRewards[i] =
                      (blockReward * (rin.uncles[i] + 8 - rin.number)) \div 8
            /\ rcall.reward =
                  blockReward + Len(rin.uncles) * (blockReward \div 32)

\* GetRewards has taken the flat path for a block with two uncles at
\* different distances from the header, and the division by 8 truncated.
C17_Witness ==
    /\ rcall.op = "GetRewards" /\ rcall.path = "flat"
    /\ Len(rin.uncles) = 2 /\ rin.uncles[1] # rin.uncles[2]
    /\ rcall.uncleRewards[1] # rcall.uncleRewards[2]
    /\ rcall.uncleRewards[1] * 8 #
           mem[EthashBlockReward(rin.config, HeaderNumber, mem, rin.order)]
               * (rin.uncles[1] + 8 - rin.number)

\* C18: for every era length L >= 1 and block number n, GetBlockEra(n, L) is
\* 0 when n <= 0 and floor((n - 1) / L) when n >= 1; so it is 0 for every n
\* in 1..L and 1 for n = L + 1.
C18_EraIsFloor ==
    rcall.op = "GetBlockEra" =>
        rcall.value = IF rin.number <= 0 THEN 0
                      ELSE (rin.number - 1) \div rin.config.eraRounds

\* C19: GetBlockWinnerRewardByEra(era, R) is R for era 0 and
\* floor(R * 4^era / 5^era) for every era >= 1, one truncating division
\* after both powers; what it returns is a new big.Int, none of those that
\* existed before the call, and R holds after the call what it held before.
C19_WinnerRewardByEra ==
    rcall.op = "GetBlockWinnerRewardByEra" =>
        LET blockReward == EthashBlockReward(rin.config, HeaderNumber, mem,
                                             rin.order)
            R == InitMem[blockReward]
            era == rin.number
        IN  /\ rcall.value = IF era = 0 THEN R
                             ELSE (R * 4^era) \div 5^era
            /\ rcall.p > NumFixed
            /\ mem[blockReward] = R

\* GetBlockWinnerRewardByEra has returned the reward of era 2 where the
\* division truncated and where dividing once per era would have given less.
C19_Witness ==
    /\ rcall.op = "GetBlockWinnerRewardByEra"
    /\ rin.number = 2
    /\ LET R == mem[EthashBlockReward(rin.config, HeaderNumber, mem,
                                      rin.order)]
       IN  /\ (R * 16) % 25 # 0
           /\ rcall.value = (R * 16) \div 25
           /\ rcall.value > (((R * 4) \div 5) * 4) \div 5

\* C20: on the era path, with blockReward the base (Frontier) reward, era the
\* era GetBlockEra gave the header and winnerReward(era) the value of C19: in
\* era 0 each uncle receives
\* floor(blockReward * (uncle.Number + 8 - header.Number) / 8); in every era
\* >= 1 each uncle receives floor(winnerReward(era) / 32) whatever its
\* distance from the header; in every era the winner receives
\* winnerReward(era) + len(uncles) * floor(winnerReward(era) / 32).
C20_EraRewards ==
    (rcall.op = "GetRewards" /\ rcall.path = "era") =>
        LET blockReward == InitMem[FrontierBlockReward]
            era == rcall.era
            winnerReward == IF era = 0 THEN blockReward
                            ELSE (blockReward * 4^era) \div 5^era
        IN  /\ Len(rcall.uncleRewards) = Len(rin.uncles)
            /\ \A i \in 1..Len(rin.uncles) :
                  rcall.uncleRewards[i] =
                      IF era = 0
                      THEN (blockReward * (rin.uncles[i] + 8 - rin.number))
                               \div 8
                      ELSE winnerReward \div 32
            /\ rcall.reward =
                  winnerReward + Len(rin.uncles) * (winnerReward \div 32)

\* GetRewards has taken the era path in an era >= 1 for a block with two
\* uncles at different distances from the header.
C20_Witness ==
    /\ rcall.op = "GetRewards" /\ rcall.path = "era"
    /\ rcall.era >= 1
    /\ Len(rin.uncles) = 2 /\ rin.uncles[1] # rin.uncles[2]
    /\ rcall.uncleRewards[1] = rcall.uncleRewards[2]

\* C21: AccumulateRewards makes exactly len(uncles) + 1 AddBalance calls on
\* the state mutator: the i-th credits uncles[i].Coinbase with uncleRewards[i],
\* in the order of the uncles list, and the last one, after all the uncles'
\* credits, credits header.Coinbase with the miner reward GetRewards returned.
C21_UnclesThenMiner ==
    rcall.op = "AccumulateRewards" =>
        /\ Len(rcall.credits) = Len(rin.uncles) + 1
        /\ \A i \in 1..Len(rin.uncles) :
              rcall.credits[i] =
                  [address |-> Coinbase(Uncles[i]),
                   amount |-> rcall.uncleRewards[i]]
        /\ rcall.credits[Len(rin.uncles) + 1] =
              [address |-> Coinbase(HeaderNumber), amount |-> rcall.reward]
        /\ rcall = [GetRewardsCall(GetRewards(mem, rin.config, HeaderNumber,
                                              Uncles, rin.order))
                      EXCEPT !.op = "AccumulateRewards",
                             !.credits = rcall.credits]

\* AccumulateRewards has credited two uncles with different rewards and then
\* the block's coinbase.
C21_Witness ==
    /\ rcall.op = "AccumulateRewards"
    /\ Len(rin.uncles) = 2
    /\ Len(rcall.credits) = 3
    /\ rcall.credits[1].amount # rcall.credits[2].amount
    /\ rcall.credits[3].amount > rcall.credits[1].amount

C23_InputsAndConstantsUnchanged ==
    rcall.op \in {"GetRewards", "AccumulateRewards"} =>
        /\ mem[HeaderNumber] = rin.number
        /\ \A i \in 1..Len(rin.uncles) : mem[HeaderNumber + i] = rin.uncles[i]
        /\ mem[FrontierBlockReward] = Globals[FrontierBlockReward]
        /\ mem[EIP649FBlockReward] = Globals[EIP649FBlockReward]
        /\ mem[EIP1234FBlockReward] = Globals[EIP1234FBlockReward]
        /\ \A i \in 1..NumFixed :
              (i < HeaderNumber \/ i > HeaderNumber + Len(rin.uncles)) =>
                  mem[i] = InitMem[i]
        /\ LET again == GetRewardsCall(GetRewards(mem, rin.config,
                                                  HeaderNumber, Uncles,
                                                  rin.order))
           IN  /\ again.reward = rcall.reward
               /\ again.uncleRewards = rcall.uncleRewards

\* AccumulateRewards has taken the era path in era 0 for a block with two
\* uncles: the winner's reward, which started as the base reward, has grown
\* by the uncles' shares.
C23_Witness ==
    /\ rcall.op = "AccumulateRewards"
    /\ rcall.path = "era" /\ rcall.era = 0
    /\ Len(rin.uncles) = 2
    /\ rcall.reward > Globals[FrontierBlockReward]

=============================================================================
